---- MODULE Spec2Model ----
(***************************************************************************)
(* Model of publish.py: one publish run reads the plugin's version marker, *)
(* computes the next semantic version, rewrites the markers of the plugin  *)
(* file, builds the zip, merges the new entry into update.json and uploads *)
(* update.json and the zip to the R2 bucket.                               *)
(*                                                                         *)
(* Text that the code handles as text (the version inside the plugin file, *)
(* the 'version' key of a manifest entry, the stable_version pointer) is   *)
(* a sequence of one-character strings; str() and semantic_version.Version *)
(* are the operators VerStr and ParseVer.  A parsed version is a triple of *)
(* naturals.  <<>> stands for "no text"/"no version" (None, key absent).   *)
(***************************************************************************)
EXTENDS Integers, Sequences, FiniteSets, TLC

\* ------------------------------------------------------------------ bounds
\* Number of publish runs started in one behaviour.
MaxRuns == 2
\* Largest major/minor/patch component drawn as an input of SpecNextVersion.
MaxComp == 4

\* ------------------------------------------------------- text and versions
Digits == <<"0", "1", "2", "3", "4", "5", "6", "7", "8", "9">>

IsDigit(c) == \E i \in 1..Len(Digits) : Digits[i] = c

DigitVal(c) == (CHOOSE i \in 1..Len(Digits) : Digits[i] = c) - 1

RECURSIVE NatStr(_)
\* str(int): decimal digits, most significant first, no leading zero.
NatStr(n) ==
    IF n < Len(Digits) THEN <<Digits[n + 1]>>
    ELSE NatStr(n \div Len(Digits)) \o <<Digits[(n % Len(Digits)) + 1]>>

\* str(semantic_version.Version): "major.minor.patch".
VerStr(v) == NatStr(v[1]) \o <<".">> \o NatStr(v[2]) \o <<".">> \o NatStr(v[3])

RECURSIVE SplitDots(_)
\* s.split('.'): the parts between the dots (a part may be empty).
SplitDots(s) ==
    IF s = <<>> THEN << <<>> >>
    ELSE LET rest == SplitDots(Tail(s))
         IN  IF Head(s) = "." THEN << <<>> >> \o rest
             ELSE << <<Head(s)>> \o Head(rest) >> \o Tail(rest)

RECURSIVE PartVal(_)
\* int(part) of a string of digits.
PartVal(p) ==
    IF p = <<>> THEN 0
    ELSE PartVal(SubSeq(p, 1, Len(p) - 1)) * Len(Digits) + DigitVal(p[Len(p)])

\* A numeric component the strict parser accepts: digits, no leading zero.
ValidPart(p) ==
    /\ p # <<>>
    /\ \A i \in 1..Len(p) : IsDigit(p[i])
    /\ Len(p) > 1 => p[1] # "0"

\* semantic_version.Version(text) for text matched by [\d.]+ : the triple,
\* or <<>> when the constructor raises ValueError.
ParseVer(s) ==
    LET parts == SplitDots(s)
    IN  IF Len(parts) = 3 /\ \A i \in 1..3 : ValidPart(parts[i])
        THEN <<PartVal(parts[1]), PartVal(parts[2]), PartVal(parts[3])>>
        ELSE <<>>

\* Precedence of semantic_version.Version (no prerelease, no build part).
VerLess(a, b) ==
    \/ a[1] < b[1]
    \/ a[1] = b[1] /\ a[2] < b[2]
    \/ a[1] = b[1] /\ a[2] = b[2] /\ a[3] < b[3]

\* Code point order of the characters that occur in a version string.
CharCode(c) == IF c = "." THEN 0 ELSE DigitVal(c) + 1

RECURSIVE StrLess(_, _)
\* Python's < on str: lexicographic by code point.
StrLess(s, t) ==
    IF t = <<>> THEN FALSE
    ELSE IF s = <<>> THEN TRUE
    ELSE IF Head(s) # Head(t) THEN CharCode(Head(s)) < CharCode(Head(t))
    ELSE StrLess(Tail(s), Tail(t))

Increments == {"patch", "minor", "major"}

next_patch(v) == <<v[1], v[2], v[3] + 1>>
next_minor(v) == <<v[1], v[2] + 1, 0>>
next_major(v) == <<v[1] + 1, 0, 0>>

NextVersion_WrongReset(v, k) ==
    IF k = "patch" THEN <<v[1], v[2], v[3] + 1>>
    ELSE IF k = "minor" THEN <<v[1], v[2] + 1, v[3]>>
    ELSE <<v[1] + 1, v[2], v[3]>>

\* main: the new version for a validated increment kind.
NextVersion(v, k) ==
    IF k = "patch" THEN next_patch(v)
    ELSE IF k = "minor" THEN next_minor(v)
    ELSE next_major(v)

\* ------------------------------------------------------------ the manifest
plugin_slug == "hsportal-youtube-upload"

\* Content of update.json.  kind is "absent" (no file), "corrupt" (a file
\* json.load rejects: open(..., 'w') has truncated it and json.dump has not
\* completed) or "ok" (a parsed document); stable_version <<>> is "no key".
FileAbsent ==
    [kind |-> "absent", plugin |-> "", versions |-> <<>>, stable_version |-> <<>>]

FileCorrupt ==
    [kind |-> "corrupt", plugin |-> "", versions |-> <<>>, stable_version |-> <<>>]

\* metadata = {'plugin': plugin_slug, 'versions': []}
EmptyManifest ==
    [kind |-> "ok", plugin |-> plugin_slug, versions |-> <<>>,
     stable_version |-> <<>>]

LoadMetadata_NoDefault(file) == file

LoadMetadata_DropStable(file) ==
    IF file.kind = "ok" THEN [file EXCEPT !.stable_version = <<>>]
    ELSE EmptyManifest

\* Load existing update.json or create new: the parsed file, or the default
\* when the file does not exist or json.load raises JSONDecodeError.
LoadMetadata(file) == IF file.kind = "ok" THEN file ELSE EmptyManifest

\* zip_name = f"{plugin_slug}-{new_version}.zip"
ZipName(v) == <<plugin_slug, "-">> \o VerStr(v) \o <<".zip">>

\* new_version_data: the fields that vary between entries (the others are
\* fixed strings built from the environment).
NewVersionData(v, zip, items) ==
    [version |-> VerStr(v), download_url |-> zip,
     changelog |-> <<"<h4>">> \o VerStr(v) \o <<"</h4><ul>">> \o items \o <<"</ul>">>]

RemoveVersion_KeepAll(versions, s) == versions

RemoveVersion_DropAll(versions, s) == <<>>

\* [v for v in metadata['versions'] if v['version'] != str(new_version)]
RemoveVersion(versions, s) == SelectSeq(versions, LAMBDA e : e.version # s)

SortKeyLess_ByString(a, b) == StrLess(a.version, b.version)

\* Order of the sort key semantic_version.Version(x['version']).
SortKeyLess(a, b) == VerLess(ParseVer(a.version), ParseVer(b.version))

RECURSIVE InsertDesc(_, _)
InsertDesc(e, s) ==
    IF s = <<>> THEN <<e>>
    ELSE IF SortKeyLess(Head(s), e) THEN <<e>> \o s
    ELSE <<Head(s)>> \o InsertDesc(e, Tail(s))

RECURSIVE SortDesc(_)
\* list.sort(key=..., reverse=True): stable, greatest key first.
SortDesc(s) ==
    IF s = <<>> THEN <<>>
    ELSE InsertDesc(s[Len(s)], SortDesc(SubSeq(s, 1, Len(s) - 1)))

Upsert_DropOthers(m, entry) == [m EXCEPT !.versions = <<entry>>]

\* Remove the existing entry for this version, append, sort descending.
Upsert(m, entry) ==
    [m EXCEPT !.versions = SortDesc(Append(RemoveVersion(@, entry.version), entry))]

MarkStable_Noop(m, s) == m

\* metadata['stable_version'] = str(new_version)
MarkStable(m, s) == [m EXCEPT !.stable_version = s]

HasVersion(m, s) == \E i \in 1..Len(m.versions) : m.versions[i].version = s

\* --------------------------------------------------------- the plugin file
\* hsportal-youtube-upload.php: header is the text that Version:\s*([\d.]+)
\* captures, const the text inside define('HSPORTAL_PLUGIN_VERSION', '...');
\* <<>> when the marker does not occur in the file.
NoFile == [exists |-> FALSE, header |-> <<>>, const |-> <<>>]

Truncated == [exists |-> TRUE, header |-> <<>>, const |-> <<>>]

BaseVersion == <<1, 8, 0>>

\* The plugin at BaseVersion with both markers.
BaseFile ==
    [exists |-> TRUE, header |-> VerStr(BaseVersion), const |-> VerStr(BaseVersion)]

\* The plugin files the first run may find.
SrcContents ==
    {NoFile}
    \cup [exists : {TRUE},
          header : {<<>>, <<"1", ".", "8">>},
          const  : {VerStr(BaseVersion)}]
    \cup [exists : {TRUE},
          header : {VerStr(BaseVersion)},
          const  : {<<>>, VerStr(BaseVersion)}]

\* The two re.sub calls: each replaces the text of its marker where the
\* marker occurs and leaves the content alone where it does not.
RewriteMarkers(content, v) ==
    [content EXCEPT !.header = IF @ = <<>> THEN <<>> ELSE VerStr(v),
                    !.const  = IF @ = <<>> THEN <<>> ELSE VerStr(v)]

Changelogs == {<<>>, <<"<li>a</li>">>, <<"<li>b</li>">>}

StageOrder == <<"rewrite", "zip", "manifest", "upload">>

\* ------------------------------------------------------------------ state
VARIABLES
    pc,              \* position of the run in main ("idle": no process)
    runs,            \* publish runs started so far
    srcFile,         \* the plugin file on disk
    localZips,       \* names of the zip files in the plugin directory
    manifestFile,    \* update.json on disk
    remoteManifest,  \* object update.json of the bucket
    remoteZips,      \* keys of the zip objects of the bucket
    current_version, \* main: current_version
    increment,       \* main: increment
    new_version,     \* main: new_version
    changelog,       \* main: changelog
    is_stable,       \* main: is_stable
    zip_name,        \* main: zip_name
    metadata,        \* update_metadata: metadata
    stages,          \* stages of StageOrder this run has entered, in order
    failedAt,        \* where this run failed ("" while it has not)
    srcAtStart,      \* the plugin file as the run found it
    manifestAtStart, \* update.json as the run found it
    loadedFrom,      \* kind of update.json when update_metadata read it
    plugin_dir,      \* create_zip: parts of the resolved plugin directory
    treeDirs,        \* directories under plugin_dir, as relative paths
    treeFiles,       \* files under plugin_dir, as relative paths
    archive,         \* entries of the zip create_zip has written
    run2             \* locals of a second publish process (SpecRace)

vars ==
    <<pc, runs, srcFile, localZips, manifestFile, remoteManifest, remoteZips,
      current_version, increment, new_version, changelog, is_stable, zip_name,
      metadata, stages, failedAt, srcAtStart, manifestAtStart, loadedFrom,
      plugin_dir, treeDirs, treeFiles, archive, run2>>

disk == <<srcFile, localZips, manifestFile>>
remote == <<remoteManifest, remoteZips>>
inputs == <<current_version, increment, new_version, changelog, is_stable>>
observed == <<srcAtStart, manifestAtStart>>
walk == <<plugin_dir, treeDirs, treeFiles, archive>>
aux == <<walk, run2>>

\* No second process.
Run2Idle ==
    [pc |-> "idle", current_version |-> <<>>, increment |-> "",
     new_version |-> <<>>, changelog |-> <<>>, is_stable |-> FALSE,
     zip_name |-> <<>>, metadata |-> FileAbsent]

\* The variables of the other specifications, at rest.
AuxInit ==
    /\ plugin_dir = <<>>
    /\ treeDirs = {}
    /\ treeFiles = {}
    /\ archive = {}
    /\ run2 = Run2Idle

InRun ==
    {"inputs", "rewrite", "zip", "meta_load", "meta_open1", "meta_dump1",
     "meta_open2", "meta_dump2", "upload_json", "upload_zip"}

Init ==
    /\ pc = "idle"
    /\ runs = 0
    /\ srcFile \in SrcContents
    /\ localZips = {}
    /\ manifestFile = FileAbsent
    /\ remoteManifest = FileAbsent
    /\ remoteZips = {}
    /\ current_version = <<>>
    /\ increment = ""
    /\ new_version = <<>>
    /\ changelog = <<>>
    /\ is_stable = FALSE
    /\ zip_name = <<>>
    /\ metadata = FileAbsent
    /\ stages = <<>>
    /\ failedAt = ""
    /\ srcAtStart = NoFile
    /\ manifestAtStart = FileAbsent
    /\ loadedFrom = ""
    /\ AuxInit

\* exit(1), or an exception nothing catches: the process ends at `where`.
Abort(where) ==
    /\ pc' = "aborted"
    /\ failedAt' = where

\* ---------------------------------------------------------------- actions
\* main up to get_current_version: the process starts and reads the current
\* version from the plugin file; a missing file, a missing marker or a text
\* that is no semantic version ends the run.
Begin ==
    /\ pc = "idle"
    /\ runs < MaxRuns
    /\ runs' = runs + 1
    /\ srcAtStart' = srcFile
    /\ manifestAtStart' = manifestFile
    /\ \/ /\ ~srcFile.exists
          /\ Abort("get_current_version")
          /\ UNCHANGED current_version
       \/ /\ srcFile.exists
          /\ srcFile.header = <<>>
          /\ Abort("get_current_version")
          /\ UNCHANGED current_version
       \/ /\ srcFile.exists
          /\ srcFile.header # <<>>
          /\ ParseVer(srcFile.header) = <<>>
          /\ Abort("get_current_version")
          /\ UNCHANGED current_version
       \/ /\ srcFile.exists
          /\ srcFile.header # <<>>
          /\ ParseVer(srcFile.header) # <<>>
          /\ current_version' = ParseVer(srcFile.header)
          /\ pc' = "inputs"
          /\ UNCHANGED failedAt
    /\ UNCHANGED <<disk, remote, increment, new_version, changelog, is_stable,
                   zip_name, metadata, stages, loadedFrom>>
    /\ UNCHANGED aux

ReadInputs_RewriteFirst ==
    /\ pc = "inputs"
    /\ \E inc \in Increments \cup {"bogus"}, items \in Changelogs, stable \in BOOLEAN :
          \/ /\ inc \notin Increments
             /\ Abort("increment")
             /\ UNCHANGED <<inputs, srcFile>>
          \/ /\ inc \in Increments
             /\ items = <<>>
             /\ increment' = inc
             /\ new_version' = NextVersion(current_version, inc)
             /\ srcFile' = RewriteMarkers(srcFile, NextVersion(current_version, inc))
             /\ Abort("changelog")
             /\ UNCHANGED <<current_version, changelog, is_stable>>
          \/ /\ inc \in Increments
             /\ items # <<>>
             /\ increment' = inc
             /\ new_version' = NextVersion(current_version, inc)
             /\ changelog' = items
             /\ is_stable' = stable
             /\ pc' = "rewrite"
             /\ UNCHANGED <<current_version, failedAt, srcFile>>
    /\ UNCHANGED <<runs, localZips, manifestFile, remote, zip_name, metadata,
                   stages, observed, loadedFrom>>
    /\ UNCHANGED aux

\* main: the prompts.  The increment kind is validated and the new version
\* computed, then the changelog is validated, then the stable flag is read.
ReadInputs ==
    /\ pc = "inputs"
    /\ \E inc \in Increments \cup {"bogus"}, items \in Changelogs, stable \in BOOLEAN :
          \/ /\ inc \notin Increments
             /\ Abort("increment")
             /\ UNCHANGED inputs
          \/ /\ inc \in Increments
             /\ items = <<>>
             /\ increment' = inc
             /\ new_version' = NextVersion(current_version, inc)
             /\ Abort("changelog")
             /\ UNCHANGED <<current_version, changelog, is_stable>>
          \/ /\ inc \in Increments
             /\ items # <<>>
             /\ increment' = inc
             /\ new_version' = NextVersion(current_version, inc)
             /\ changelog' = items
             /\ is_stable' = stable
             /\ pc' = "rewrite"
             /\ UNCHANGED <<current_version, failedAt>>
    /\ UNCHANGED <<runs, disk, remote, zip_name, metadata, stages, observed,
                   loadedFrom>>
    /\ UNCHANGED aux

\* update_plugin_version: read, substitute both markers, write back in place.
\* An exception (the read fails, or the write fails after open(..., 'w') has
\* truncated the file) ends the run.
UpdatePluginVersion ==
    /\ pc = "rewrite"
    /\ stages' = Append(stages, "rewrite")
    /\ \/ /\ srcFile' = RewriteMarkers(srcFile, new_version)
          /\ pc' = "zip"
          /\ UNCHANGED failedAt
       \/ /\ Abort("rewrite")
          /\ UNCHANGED srcFile
       \/ /\ Abort("rewrite")
          /\ srcFile' = Truncated
    /\ UNCHANGED <<runs, localZips, manifestFile, remote, inputs, zip_name,
                   metadata, observed, loadedFrom>>
    /\ UNCHANGED aux

CreateZip_ContinueOnError ==
    /\ pc = "zip"
    /\ stages' = Append(stages, "zip")
    /\ \/ /\ zip_name' = ZipName(new_version)
          /\ localZips' = localZips \cup {ZipName(new_version)}
          /\ pc' = "meta_load"
          /\ UNCHANGED failedAt
       \/ /\ failedAt' = "zip"
          /\ pc' = "meta_load"
          /\ UNCHANGED <<zip_name, localZips>>
    /\ UNCHANGED <<runs, srcFile, manifestFile, remote, inputs, metadata,
                   observed, loadedFrom>>
    /\ UNCHANGED aux

\* create_zip: the archive is written into the plugin directory under
\* zip_name; any exception ends the run.
CreateZip ==
    /\ pc = "zip"
    /\ stages' = Append(stages, "zip")
    /\ \/ /\ zip_name' = ZipName(new_version)
          /\ localZips' = localZips \cup {ZipName(new_version)}
          /\ pc' = "meta_load"
          /\ UNCHANGED failedAt
       \/ /\ Abort("zip")
          /\ UNCHANGED <<zip_name, localZips>>
    /\ UNCHANGED <<runs, srcFile, manifestFile, remote, inputs, metadata,
                   observed, loadedFrom>>
    /\ UNCHANGED aux

\* update_metadata up to the sort: load update.json (or the default), drop
\* the entry of this version, append the new entry, sort.
LoadAndMerge ==
    /\ pc = "meta_load"
    /\ stages' = Append(stages, "manifest")
    /\ loadedFrom' = manifestFile.kind
    /\ metadata' = Upsert(LoadMetadata(manifestFile),
                          NewVersionData(new_version, zip_name, changelog))
    /\ pc' = "meta_open1"
    /\ UNCHANGED <<runs, disk, remote, inputs, zip_name, failedAt, observed>>
    /\ UNCHANGED aux

\* open(update_json_path, 'w'): the file is created or truncated to nothing.
OpenForWrite(next, where) ==
    /\ \/ /\ manifestFile' = FileCorrupt
          /\ pc' = next
          /\ UNCHANGED failedAt
       \/ /\ Abort(where)
          /\ UNCHANGED manifestFile
    /\ UNCHANGED <<runs, srcFile, localZips, remote, inputs, zip_name, metadata,
                   stages, observed, loadedFrom>>
    /\ UNCHANGED aux

\* First write of update.json, the open.
MetaOpen1 ==
    /\ pc = "meta_open1"
    /\ OpenForWrite("meta_dump1", "manifest")

\* First write of update.json, json.dump; then, for a stable publish, the
\* stable_version key is set in memory before the second write.
MetaDump1 ==
    /\ pc = "meta_dump1"
    /\ \/ /\ manifestFile' = metadata
          /\ IF is_stable
             THEN /\ metadata' = MarkStable(metadata, VerStr(new_version))
                  /\ pc' = "meta_open2"
             ELSE /\ pc' = "upload_json"
                  /\ UNCHANGED metadata
          /\ UNCHANGED failedAt
       \/ /\ Abort("manifest")
          /\ UNCHANGED <<manifestFile, metadata>>
    /\ UNCHANGED <<runs, srcFile, localZips, remote, inputs, zip_name, stages,
                   observed, loadedFrom>>
    /\ UNCHANGED aux

\* Second write of update.json (stable publish), the open.
MetaOpen2 ==
    /\ pc = "meta_open2"
    /\ OpenForWrite("meta_dump2", "manifest")

\* Second write of update.json (stable publish), json.dump.
MetaDump2 ==
    /\ pc = "meta_dump2"
    /\ \/ /\ manifestFile' = metadata
          /\ pc' = "upload_json"
          /\ UNCHANGED failedAt
       \/ /\ Abort("manifest")
          /\ UNCHANGED manifestFile
    /\ UNCHANGED <<runs, srcFile, localZips, remote, inputs, zip_name, metadata,
                   stages, observed, loadedFrom>>
    /\ UNCHANGED aux

\* upload_to_r2, first file of the list: update.json as it is on disk.
UploadManifest ==
    /\ pc = "upload_json"
    /\ stages' = Append(stages, "upload")
    /\ \/ /\ remoteManifest' = manifestFile
          /\ pc' = "upload_zip"
          /\ UNCHANGED failedAt
       \/ /\ Abort("upload")
          /\ UNCHANGED remoteManifest
    /\ UNCHANGED <<runs, disk, remoteZips, inputs, zip_name, metadata, observed,
                   loadedFrom>>
    /\ UNCHANGED aux

\* upload_to_r2, second file of the list: the zip.
UploadZip ==
    /\ pc = "upload_zip"
    /\ \/ /\ remoteZips' = remoteZips \cup {zip_name}
          /\ pc' = "done"
          /\ UNCHANGED failedAt
       \/ /\ Abort("upload")
          /\ UNCHANGED remoteZips
    /\ UNCHANGED <<runs, disk, remoteManifest, inputs, zip_name, metadata,
                   stages, observed, loadedFrom>>
    /\ UNCHANGED aux

\* The process is interrupted (killed, Ctrl-C) between two steps.
Interrupt ==
    /\ pc \in InRun
    /\ Abort("interrupt")
    /\ UNCHANGED <<runs, disk, remote, inputs, zip_name, metadata, stages,
                   observed, loadedFrom>>
    /\ UNCHANGED aux

\* The process has ended: its locals are gone, the disk and the bucket stay.
Exit ==
    /\ pc \in {"done", "aborted"}
    /\ pc' = "idle"
    /\ current_version' = <<>>
    /\ increment' = ""
    /\ new_version' = <<>>
    /\ changelog' = <<>>
    /\ is_stable' = FALSE
    /\ zip_name' = <<>>
    /\ metadata' = FileAbsent
    /\ stages' = <<>>
    /\ failedAt' = ""
    /\ srcAtStart' = NoFile
    /\ manifestAtStart' = FileAbsent
    /\ loadedFrom' = ""
    /\ UNCHANGED <<runs, disk, remote>>
    /\ UNCHANGED aux

\* Between two runs the operator puts the plugin file at BaseVersion back.
EditSource ==
    /\ pc = "idle"
    /\ runs < MaxRuns
    /\ srcFile # BaseFile
    /\ srcFile' = BaseFile
    /\ UNCHANGED <<pc, runs, localZips, manifestFile, remote, inputs, zip_name,
                   metadata, stages, failedAt, observed, loadedFrom>>
    /\ UNCHANGED aux

Next ==
    \/ Begin
    \/ ReadInputs
    \/ UpdatePluginVersion
    \/ CreateZip
    \/ LoadAndMerge
    \/ MetaOpen1
    \/ MetaDump1
    \/ MetaOpen2
    \/ MetaDump2
    \/ UploadManifest
    \/ UploadZip
    \/ Interrupt
    \/ Exit
    \/ EditSource

Spec == Init /\ [][Next]_vars

\* ------------------------------------------- specification of nextVersion
\* Every version with components up to MaxComp as the text of the header.
VersionInputs == (0..MaxComp) \X (0..MaxComp) \X (0..MaxComp)

InitNextVersion ==
    /\ pc = "idle"
    /\ runs = 0
    /\ \E v \in VersionInputs :
          srcFile = [exists |-> TRUE, header |-> VerStr(v), const |-> VerStr(v)]
    /\ localZips = {}
    /\ manifestFile = FileAbsent
    /\ remoteManifest = FileAbsent
    /\ remoteZips = {}
    /\ current_version = <<>>
    /\ increment = ""
    /\ new_version = <<>>
    /\ changelog = <<>>
    /\ is_stable = FALSE
    /\ zip_name = <<>>
    /\ metadata = FileAbsent
    /\ stages = <<>>
    /\ failedAt = ""
    /\ srcAtStart = NoFile
    /\ manifestAtStart = FileAbsent
    /\ loadedFrom = ""
    /\ AuxInit

NextNextVersion ==
    \/ Begin
    \/ ReadInputs

SpecNextVersion == InitNextVersion /\ [][NextNextVersion]_vars

\* ---------------------------------- specification of the stable-marking step
RECURSIVE SetToSeq(_)
SetToSeq(S) ==
    IF S = {} THEN <<>>
    ELSE LET x == CHOOSE y \in S : TRUE IN <<x>> \o SetToSeq(S \ {x})

MarkVersions == {<<1, 2, 0>>, <<1, 9, 0>>, <<1, 10, 0>>, <<2, 0, 0>>}

EntryOf(v) == NewVersionData(v, ZipName(v), <<"<li>a</li>">>)

\* The well-formed manifests over MarkVersions: sorted, one entry per
\* version, the stable pointer absent or at a member.
MarkManifests ==
    {[EmptyManifest EXCEPT
         !.versions = SortDesc(SetToSeq({EntryOf(v) : v \in S})),
         !.stable_version = st] :
       <<S, st>> \in {x \in (SUBSET MarkVersions) \X ({<<>>} \cup {VerStr(v) : v \in MarkVersions}) :
                        x[2] = <<>> \/ \E v \in x[1] : VerStr(v) = x[2]}}

InitMarkStable ==
    /\ pc = "mark"
    /\ runs = 0
    /\ srcFile = NoFile
    /\ localZips = {}
    /\ manifestFile = FileAbsent
    /\ remoteManifest = FileAbsent
    /\ remoteZips = {}
    /\ current_version = <<>>
    /\ increment = ""
    /\ new_version \in MarkVersions
    /\ changelog = <<>>
    /\ is_stable = TRUE
    /\ zip_name = <<>>
    /\ metadata \in MarkManifests
    /\ stages = <<>>
    /\ failedAt = ""
    /\ srcAtStart = NoFile
    /\ manifestAtStart = FileAbsent
    /\ loadedFrom = ""
    /\ AuxInit

\* Lines 158-159 on their own: the pointer is set in memory.
MarkStableStep ==
    /\ pc = "mark"
    /\ is_stable
    /\ metadata' = MarkStable(metadata, VerStr(new_version))
    /\ pc' = "marked"
    /\ UNCHANGED <<runs, disk, remote, inputs, zip_name, stages, failedAt,
                   observed, loadedFrom>>
    /\ UNCHANGED aux

NextMarkStable ==
    \/ MarkStableStep

SpecMarkStable == InitMarkStable /\ [][NextMarkStable]_vars

\* ----------------------------------------------- specification of create_zip
\* File and directory names are sequences of characters; a path is a
\* sequence of names (Path.parts without the root "/").
Uppers ==
    <<"A", "B", "C", "D", "E", "F", "G", "H", "I", "J", "K", "L", "M",
      "N", "O", "P", "Q", "R", "S", "T", "U", "V", "W", "X", "Y", "Z">>

Lowers ==
    <<"a", "b", "c", "d", "e", "f", "g", "h", "i", "j", "k", "l", "m",
      "n", "o", "p", "q", "r", "s", "t", "u", "v", "w", "x", "y", "z">>

\* str.lower()
Lower(name) ==
    [i \in 1..Len(name) |->
        IF \E k \in 1..Len(Uppers) : Uppers[k] = name[i]
        THEN Lowers[CHOOSE k \in 1..Len(Uppers) : Uppers[k] = name[i]]
        ELSE name[i]]

\* Path.suffix: the name from its last dot on, unless that dot is the first
\* or the last character of the name (or there is none).
Suffix(name) ==
    LET dots == {i \in 1..Len(name) : name[i] = "."}
    IN  IF dots = {} THEN <<>>
        ELSE LET i == CHOOSE j \in dots : \A k \in dots : k <= j
             IN  IF 1 < i /\ i < Len(name) THEN SubSeq(name, i, Len(name))
                 ELSE <<>>

EXCLUDE_EXTENSIONS ==
    {<<".", "z", "i", "p">>, <<".", "t", "a", "r">>, <<".", "g", "z">>,
     <<".", "t", "g", "z">>, <<".", "b", "z", "2">>, <<".", "r", "a", "r">>,
     <<".", "7", "z">>}

n_py == <<"p", "y">>
n_old == <<"o", "l", "d">>
n_logs == <<"l", "o", "g", "s">>
n_env == <<".", "e", "n", "v">>

EXCLUDE_DIRS == {n_py, n_old}

\* plugin_slug as a path component.
slug_part ==
    <<"h", "s", "p", "o", "r", "t", "a", "l", "-", "y", "o", "u", "t", "u", "b",
      "e", "-", "u", "p", "l", "o", "a", "d">>

\* path.relative_to(plugin_dir), on parts.
RelativeTo(parts, base) == SubSeq(parts, Len(base) + 1, Len(parts))

ArcName_UnderDirName(parts, base) == SubSeq(parts, Len(base), Len(parts))

\* arcname = Path(plugin_slug) / path.relative_to(plugin_dir)
ArcName(parts, base) == <<slug_part>> \o RelativeTo(parts, base)

SkipFile_CaseSensitive(file_parts, file) ==
    \/ \E i \in 1..Len(file_parts) : file_parts[i] = n_logs
    \/ Suffix(file) \in EXCLUDE_EXTENSIONS
    \/ file = n_env

\* 'logs' in file_path.parts or file_path.suffix.lower() in
\* EXCLUDE_EXTENSIONS or file == '.env'
SkipFile(file_parts, file) ==
    \/ \E i \in 1..Len(file_parts) : file_parts[i] = n_logs
    \/ Lower(Suffix(file)) \in EXCLUDE_EXTENSIONS
    \/ file = n_env

\* The files os.walk lists for the directory with relative path d.
FilesIn(files, d) ==
    {f \in files : Len(f) = Len(d) + 1 /\ SubSeq(f, 1, Len(d)) = d}

\* One iteration of the os.walk loop: the entries written for the directory
\* whose absolute parts are base \o d.
WalkDir(base, files, d) ==
    LET root_parts == base \o d
    IN  IF \E i \in 1..Len(root_parts) : root_parts[i] \in EXCLUDE_DIRS
        THEN {}
        ELSE IF \E i \in 1..Len(root_parts) : root_parts[i] = n_logs
        THEN IF root_parts[Len(root_parts)] = n_logs
             THEN {[kind |-> "dir", path |-> ArcName(root_parts, base)]}
             ELSE {}
        ELSE {[kind |-> "file", path |-> ArcName(base \o f, base)] :
                 f \in {g \in FilesIn(files, d) :
                          ~SkipFile(base \o g, g[Len(g)])}}

\* The entries of the zip after the walk over the whole tree.
CreateZipEntries(base, dirs, files) ==
    UNION {WalkDir(base, files, d) : d \in dirs}

n_srv == <<"s", "r", "v">>
n_plugin == <<"p", "l", "u", "g", "i", "n">>
n_inc == <<"i", "n", "c">>
n_assets == <<"a", "s", "s", "e", "t", "s">>
n_main_php == <<"m", "a", "i", "n", ".", "p", "h", "p">>
n_a_php == <<"a", ".", "p", "h", "p">>
n_a_ZIP == <<"a", ".", "Z", "I", "P">>
n_report_tar_gz ==
    <<"r", "e", "p", "o", "r", "t", ".", "t", "a", "r", ".", "g", "z">>
n_app_log == <<"a", "p", "p", ".", "l", "o", "g">>
n_out_zip == <<"h", "-", "1", ".", "z", "i", "p">>

\* Where the plugin directory may be: /srv/plugin, /old/plugin,
\* /logs/plugin, /srv/logs.
Locations ==
    {<<n_srv, n_plugin>>, <<n_old, n_plugin>>, <<n_logs, n_plugin>>,
     <<n_srv, n_logs>>}

\* The files a tree may hold besides the zip being written.
FileUniverse ==
    {<<n_main_php>>, <<n_env>>, <<n_inc, n_env>>, <<n_inc, n_a_php>>,
     <<n_a_ZIP>>, <<n_old, n_report_tar_gz>>, <<n_inc, n_py, n_a_php>>,
     <<n_logs, n_app_log>>, <<n_logs, n_logs, n_a_php>>, <<n_inc, n_old>>,
     <<n_inc, n_logs>>}

\* Directories that may exist without a file in them.
EmptyDirUniverse == {<<n_logs>>, <<n_assets, n_logs>>}

\* A path and the directories above it, the root <<>> included.
Ancestors(path) == {SubSeq(path, 1, k) : k \in 0..(Len(path) - 1)}

InitArchive ==
    /\ pc = "zip_walk"
    /\ runs = 0
    /\ srcFile = NoFile
    /\ localZips = {}
    /\ manifestFile = FileAbsent
    /\ remoteManifest = FileAbsent
    /\ remoteZips = {}
    /\ current_version = <<>>
    /\ increment = ""
    /\ new_version = <<>>
    /\ changelog = <<>>
    /\ is_stable = FALSE
    /\ zip_name = <<>>
    /\ metadata = FileAbsent
    /\ stages = <<>>
    /\ failedAt = ""
    /\ srcAtStart = NoFile
    /\ manifestAtStart = FileAbsent
    /\ loadedFrom = ""
    /\ plugin_dir \in Locations
    /\ \E fs \in SUBSET FileUniverse, es \in SUBSET EmptyDirUniverse :
          /\ treeFiles = fs \cup {<<n_out_zip>>}
          /\ treeDirs = UNION {Ancestors(f) : f \in fs}
                        \cup UNION {Ancestors(e) \cup {e} : e \in es}
                        \cup {<<>>}
    /\ archive = {}
    /\ run2 = Run2Idle

\* create_zip, the walk: every directory of the tree is visited once.
WalkTree ==
    /\ pc = "zip_walk"
    /\ archive' = CreateZipEntries(plugin_dir, treeDirs, treeFiles)
    /\ pc' = "zip_written"
    /\ UNCHANGED <<runs, disk, remote, inputs, zip_name, metadata, stages,
                   failedAt, observed, loadedFrom, plugin_dir, treeDirs,
                   treeFiles, run2>>

NextArchive ==
    \/ WalkTree

SpecArchive == InitArchive /\ [][NextArchive]_vars

\* ------------------------------------------------------------------ claims
Range(f) == {f[i] : i \in 1..Len(f)}

IsPrefix(s, t) == Len(s) <= Len(t) /\ \A i \in 1..Len(s) : s[i] = t[i]

\* The entry this run builds for new_version.
RunEntry == NewVersionData(new_version, ZipName(new_version), changelog)

\* The manifest a complete run leaves, from the manifest it found.
FinalManifest ==
    LET m == Upsert(LoadMetadata(manifestAtStart), RunEntry)
    IN  IF is_stable THEN MarkStable(m, VerStr(new_version)) ELSE m

\* C1: the bucket never holds a manifest with an entry whose archive is not
\* in the bucket, and never holds an archive that no entry of the manifest
\* in the bucket refers to.
C1_NoPartialPublish ==
    /\ \A i \in 1..Len(remoteManifest.versions) :
          remoteManifest.versions[i].download_url \in remoteZips
    /\ \A z \in remoteZips :
          \E i \in 1..Len(remoteManifest.versions) :
             remoteManifest.versions[i].download_url = z

\* C2: the stages a run has entered are a prefix of rewrite, zip, manifest,
\* upload (so each runs at most once and in that order); a run that has
\* failed is over and failed in the last stage it entered; a run in the
\* upload stage has the rewritten plugin file, the zip and the merged
\* manifest on disk.
C2_FailFastOrder ==
    /\ IsPrefix(stages, StageOrder)
    /\ failedAt # "" => pc = "aborted"
    /\ failedAt \in Range(StageOrder) =>
          stages # <<>> /\ stages[Len(stages)] = failedAt
    /\ pc = "done" => stages = StageOrder /\ failedAt = ""
    /\ "upload" \in Range(stages) =>
          /\ srcFile = RewriteMarkers(srcAtStart, new_version)
          /\ zip_name = ZipName(new_version)
          /\ zip_name \in localZips
          /\ manifestFile = metadata
          /\ HasVersion(manifestFile, VerStr(new_version))

C2_Witness == pc = "done" /\ stages = StageOrder /\ runs = MaxRuns

\* C3: a parsed update.json has at most one entry per version string, and
\* once a run has written it the entry of the run's version is the entry
\* the run built.
C3_OneEntryPerVersion ==
    /\ manifestFile.kind = "ok" =>
          \A i, j \in 1..Len(manifestFile.versions) :
             manifestFile.versions[i].version = manifestFile.versions[j].version
                => i = j
    /\ pc \in {"upload_json", "upload_zip", "done"} =>
          \E i \in 1..Len(manifestFile.versions) :
             manifestFile.versions[i] = RunEntry

\* A version that was in the manifest with another changelog is published
\* again and the manifest is written.
C3_Witness ==
    /\ pc = "upload_json"
    /\ HasVersion(manifestAtStart, VerStr(new_version))
    /\ \A i \in 1..Len(manifestAtStart.versions) :
          manifestAtStart.versions[i] # RunEntry

\* C4: in a parsed update.json every entry has a strictly greater version,
\* compared as (major, minor, patch) integers, than the entry after it.
C4_SortedDescSemver ==
    manifestFile.kind = "ok" =>
       \A i \in 1..(Len(manifestFile.versions) - 1) :
          VerLess(ParseVer(manifestFile.versions[i + 1].version),
                  ParseVer(manifestFile.versions[i].version))

\* 1.10.0 stands before 1.9.0, against the order of the strings.
C4_Witness ==
    /\ manifestFile.kind = "ok"
    /\ Len(manifestFile.versions) >= 2
    /\ manifestFile.versions[1].version = VerStr(<<1, 10, 0>>)
    /\ manifestFile.versions[2].version = VerStr(<<1, 9, 0>>)
    /\ StrLess(manifestFile.versions[1].version, manifestFile.versions[2].version)

\* C5: in a parsed update.json the stable_version pointer, when present, is
\* the version of an entry of the versions sequence.
C5_StablePointsToMember ==
    (manifestFile.kind = "ok" /\ manifestFile.stable_version # <<>>) =>
       HasVersion(manifestFile, manifestFile.stable_version)

\* The pointer stays at an older entry while a later, not stable, publish
\* has put a newer entry in front of it.
C5_Witness ==
    /\ manifestFile.kind = "ok"
    /\ Len(manifestFile.versions) >= 2
    /\ manifestFile.stable_version = manifestFile.versions[2].version

C7_NextVersion ==
    new_version # <<>> =>
       /\ increment = "major" =>
             new_version = <<current_version[1] + 1, 0, 0>>
       /\ increment = "minor" =>
             new_version = <<current_version[1], current_version[2] + 1, 0>>
       /\ increment = "patch" =>
             new_version = <<current_version[1], current_version[2],
                             current_version[3] + 1>>
       /\ VerLess(current_version, new_version)
       /\ VerStr(current_version) = srcAtStart.header

C7_Witness ==
    /\ pc = "rewrite"
    /\ srcAtStart.header = <<"1", ".", "2", ".", "3">>
    /\ increment = "minor"
    /\ new_version = <<1, 3, 0>>

\* C8: when the plugin file lacks the header marker or the version constant,
\* the rewrite fails and the plugin file stays as the run found it.
C8_RewriteAllOrNothing ==
    (/\ "rewrite" \in Range(stages)
     /\ srcAtStart.header = <<>> \/ srcAtStart.const = <<>>)
       => (failedAt = "rewrite" /\ srcFile = srcAtStart)

\* C9: during and after a run update.json is the manifest the run found or
\* the complete final manifest of the run.
C9_AtomicSave ==
    pc # "idle" =>
       IF new_version = <<>> THEN manifestFile = manifestAtStart
       ELSE manifestFile \in {manifestAtStart, FinalManifest}

\* C10: when update.json was absent or unparseable at the load, the load
\* did not fail: the manifest in memory is the default one with the
\* component identifier plus the new entry alone, and so is the file once
\* it is written.
C10_LoadFallback ==
    loadedFrom \in {"absent", "corrupt"} =>
       /\ metadata.kind = "ok"
       /\ metadata.plugin = plugin_slug
       /\ metadata.versions = <<RunEntry>>
       /\ metadata.stable_version \in {<<>>, VerStr(new_version)}
       /\ metadata.stable_version # <<>> => is_stable
       /\ pc \in {"upload_json", "upload_zip", "done"} =>
             /\ manifestFile.kind = "ok"
             /\ manifestFile.plugin = plugin_slug
             /\ manifestFile.versions = <<RunEntry>>

\* An unparseable update.json was loaded and the run has written its manifest.
C10_Witness ==
    /\ loadedFrom = "corrupt"
    /\ pc = "upload_json"
    /\ manifestFile = metadata

\* ------------------------------------------------- a re-run after an abort
\* A new process is started for the run that aborted after the rewrite of
\* the plugin file (in create_zip, update_metadata or upload_to_r2, or
\* interrupted there): main reads the current version from the plugin file
\* as it now is.  srcAtStart and manifestAtStart keep what the aborted run
\* found; increment, changelog and is_stable keep what it was given.
Rerun ==
    /\ pc = "aborted"
    /\ runs < MaxRuns
    /\ \E i \in 1..Len(stages) : stages[i] = "rewrite"
    /\ failedAt # "rewrite"
    /\ runs' = runs + 1
    /\ stages' = <<>>
    /\ zip_name' = <<>>
    /\ metadata' = FileAbsent
    /\ loadedFrom' = ""
    /\ new_version' = <<>>
    /\ IF srcFile.exists /\ srcFile.header # <<>> /\ ParseVer(srcFile.header) # <<>>
       THEN /\ current_version' = ParseVer(srcFile.header)
            /\ pc' = "rerun_inputs"
            /\ failedAt' = ""
       ELSE /\ current_version' = <<>>
            /\ Abort("get_current_version")
    /\ UNCHANGED <<disk, remote, increment, changelog, is_stable, observed>>
    /\ UNCHANGED aux

\* main, the prompts of the re-run, answered as for the aborted run.
RerunInputs ==
    /\ pc = "rerun_inputs"
    /\ new_version' = NextVersion(current_version, increment)
    /\ pc' = "rewrite"
    /\ UNCHANGED <<runs, disk, remote, current_version, increment, changelog,
                   is_stable, zip_name, metadata, stages, failedAt, observed,
                   loadedFrom>>
    /\ UNCHANGED aux

NextRerun ==
    \/ Begin
    \/ ReadInputs
    \/ UpdatePluginVersion
    \/ CreateZip
    \/ LoadAndMerge
    \/ MetaOpen1
    \/ MetaDump1
    \/ MetaOpen2
    \/ MetaDump2
    \/ UploadManifest
    \/ UploadZip
    \/ Interrupt
    \/ Rerun
    \/ RerunInputs

SpecRerun == Init /\ [][NextRerun]_vars

\* ------------------------------------------------- two overlapping runs
\* Two processes publish from the same plugin directory to the same bucket.
\* The first is the process of Spec; the locals of the second are the
\* fields of run2, its steps are the same code on the same files.

\* What the steps of the second process leave alone in the first.
proc1 ==
    <<pc, runs, inputs, zip_name, metadata, stages, failedAt, observed,
      loadedFrom, walk>>

P2At(where) == run2.pc = where

P2Goto(where) == run2' = [run2 EXCEPT !.pc = where]

\* update_plugin_version in the second process.
P2UpdatePluginVersion ==
    /\ P2At("rewrite")
    /\ \/ /\ srcFile' = RewriteMarkers(srcFile, run2.new_version)
          /\ P2Goto("zip")
       \/ /\ P2Goto("aborted")
          /\ UNCHANGED srcFile
       \/ /\ P2Goto("aborted")
          /\ srcFile' = Truncated
    /\ UNCHANGED <<localZips, manifestFile, remote, proc1>>

\* create_zip in the second process.
P2CreateZip ==
    /\ P2At("zip")
    /\ \/ /\ run2' = [run2 EXCEPT !.zip_name = ZipName(run2.new_version),
                                  !.pc = "meta_load"]
          /\ localZips' = localZips \cup {ZipName(run2.new_version)}
       \/ /\ P2Goto("aborted")
          /\ UNCHANGED localZips
    /\ UNCHANGED <<srcFile, manifestFile, remote, proc1>>

P2LoadAndMerge_Locked ==
    /\ P2At("meta_load")
    /\ pc \notin {"meta_open1", "meta_dump1", "meta_open2", "meta_dump2"}
    /\ run2' = [run2 EXCEPT
                  !.metadata = Upsert(LoadMetadata(manifestFile),
                                      NewVersionData(run2.new_version,
                                                     run2.zip_name,
                                                     run2.changelog)),
                  !.pc = "meta_open1"]
    /\ UNCHANGED <<disk, remote, proc1>>

\* update_metadata up to the sort in the second process: update.json is
\* read as it is on disk at this moment, whatever the first process is doing.
P2LoadAndMerge ==
    /\ P2At("meta_load")
    /\ run2' = [run2 EXCEPT
                  !.metadata = Upsert(LoadMetadata(manifestFile),
                                      NewVersionData(run2.new_version,
                                                     run2.zip_name,
                                                     run2.changelog)),
                  !.pc = "meta_open1"]
    /\ UNCHANGED <<disk, remote, proc1>>

\* open(update_json_path, 'w') in the second process.
P2OpenForWrite(next) ==
    /\ \/ /\ manifestFile' = FileCorrupt
          /\ P2Goto(next)
       \/ /\ P2Goto("aborted")
          /\ UNCHANGED manifestFile
    /\ UNCHANGED <<srcFile, localZips, remote, proc1>>

P2MetaOpen1 ==
    /\ P2At("meta_open1")
    /\ P2OpenForWrite("meta_dump1")

\* First json.dump of the second process, and the stable key in memory.
P2MetaDump1 ==
    /\ P2At("meta_dump1")
    /\ \/ /\ manifestFile' = run2.metadata
          /\ IF run2.is_stable
             THEN run2' = [run2 EXCEPT
                             !.metadata = MarkStable(@, VerStr(run2.new_version)),
                             !.pc = "meta_open2"]
             ELSE P2Goto("upload_json")
       \/ /\ P2Goto("aborted")
          /\ UNCHANGED manifestFile
    /\ UNCHANGED <<srcFile, localZips, remote, proc1>>

P2MetaOpen2 ==
    /\ P2At("meta_open2")
    /\ P2OpenForWrite("meta_dump2")

\* Second json.dump of the second process (stable publish).
P2MetaDump2 ==
    /\ P2At("meta_dump2")
    /\ \/ /\ manifestFile' = run2.metadata
          /\ P2Goto("upload_json")
       \/ /\ P2Goto("aborted")
          /\ UNCHANGED manifestFile
    /\ UNCHANGED <<srcFile, localZips, remote, proc1>>

\* upload_to_r2 in the second process: update.json as it is on disk now.
P2UploadManifest ==
    /\ P2At("upload_json")
    /\ \/ /\ remoteManifest' = manifestFile
          /\ P2Goto("upload_zip")
       \/ /\ P2Goto("aborted")
          /\ UNCHANGED remoteManifest
    /\ UNCHANGED <<disk, remoteZips, proc1>>

\* upload_to_r2 in the second process: the zip.
P2UploadZip ==
    /\ P2At("upload_zip")
    /\ \/ /\ remoteZips' = remoteZips \cup {run2.zip_name}
          /\ P2Goto("done")
       \/ /\ P2Goto("aborted")
          /\ UNCHANGED remoteZips
    /\ UNCHANGED <<disk, remoteManifest, proc1>>

\* Both processes have read BaseVersion from the plugin file and have been
\* given valid answers to main's prompts, with different increment kinds;
\* nothing has been written yet, and update.json does not exist.
InitRace ==
    /\ pc = "rewrite"
    /\ runs = 1
    /\ srcFile = BaseFile
    /\ localZips = {}
    /\ manifestFile = FileAbsent
    /\ remoteManifest = FileAbsent
    /\ remoteZips = {}
    /\ current_version = BaseVersion
    /\ increment \in Increments
    /\ new_version = NextVersion(BaseVersion, increment)
    /\ changelog = <<"<li>a</li>">>
    /\ is_stable \in BOOLEAN
    /\ zip_name = <<>>
    /\ metadata = FileAbsent
    /\ stages = <<>>
    /\ failedAt = ""
    /\ srcAtStart = BaseFile
    /\ manifestAtStart = FileAbsent
    /\ loadedFrom = ""
    /\ plugin_dir = <<>>
    /\ treeDirs = {}
    /\ treeFiles = {}
    /\ archive = {}
    /\ run2 \in {[pc |-> "rewrite", current_version |-> BaseVersion,
                  increment |-> k, new_version |-> NextVersion(BaseVersion, k),
                  changelog |-> <<"<li>b</li>">>, is_stable |-> st,
                  zip_name |-> <<>>, metadata |-> FileAbsent] :
                    k \in Increments \ {increment}, st \in BOOLEAN}

NextRace ==
    \/ UpdatePluginVersion
    \/ CreateZip
    \/ LoadAndMerge
    \/ MetaOpen1
    \/ MetaDump1
    \/ MetaOpen2
    \/ MetaDump2
    \/ UploadManifest
    \/ UploadZip
    \/ P2UpdatePluginVersion
    \/ P2CreateZip
    \/ P2LoadAndMerge
    \/ P2MetaOpen1
    \/ P2MetaDump1
    \/ P2MetaOpen2
    \/ P2MetaDump2
    \/ P2UploadManifest
    \/ P2UploadZip

SpecRace == InitRace /\ [][NextRace]_vars

\* ------------------------------------------------------ claims on the zip
\* A file's relative path passes every exclusion rule: its name is not
\* .env, its extension (lower-cased) is not a compressed one, and no
\* directory on its path is named py, old or logs.
PassesRules(rel) ==
    /\ rel[Len(rel)] # n_env
    /\ Lower(Suffix(rel[Len(rel)])) \notin EXCLUDE_EXTENSIONS
    /\ \A i \in 1..(Len(rel) - 1) : rel[i] \notin EXCLUDE_DIRS \cup {n_logs}

IsProperPrefix(s, t) == Len(s) < Len(t) /\ SubSeq(t, 1, Len(s)) = s

\* C11: every file entry of the built zip is a file of the tree that passes
\* every exclusion rule (name .env, compressed extension in any case,
\* directory py or old on the path, beneath a directory logs).
C11_NoExcludedFile ==
    pc = "zip_written" =>
       \A e \in archive :
          e.kind = "file" =>
             /\ Len(e.path) >= 2
             /\ Tail(e.path) \in treeFiles
             /\ PassesRules(Tail(e.path))

\* A tree with a file for every rule, and a zip that is not empty.
C11_Witness ==
    /\ pc = "zip_written"
    /\ plugin_dir = <<n_srv, n_plugin>>
    /\ {<<n_inc, n_env>>, <<n_a_ZIP>>, <<n_old, n_report_tar_gz>>,
        <<n_inc, n_py, n_a_php>>, <<n_logs, n_app_log>>, <<n_main_php>>}
          \subseteq treeFiles
    /\ [kind |-> "file", path |-> <<slug_part, n_main_php>>] \in archive

\* C12: every directory named logs of the tree with no directory py or old
\* above it is a directory entry of the zip, and the zip has no entry
\* beneath it.
C12_LogsDirEmptyEntry ==
    pc = "zip_written" =>
       \A d \in treeDirs :
          (/\ d # <<>>
           /\ d[Len(d)] = n_logs
           /\ \A i \in 1..Len(d) : d[i] \notin EXCLUDE_DIRS)
             => /\ [kind |-> "dir", path |-> <<slug_part>> \o d] \in archive
                /\ \A e \in archive : ~IsProperPrefix(<<slug_part>> \o d, e.path)

\* C13: the path of every entry of the built zip starts with the plugin
\* slug, so the zip has no other top-level name.
C13_SingleTopLevel ==
    pc = "zip_written" =>
       \A e \in archive : Len(e.path) >= 1 /\ e.path[1] = slug_part

\* A zip with entries, built from a directory that is not named as the slug.
C13_Witness ==
    /\ pc = "zip_written"
    /\ plugin_dir = <<n_srv, n_plugin>>
    /\ [kind |-> "file", path |-> <<slug_part, n_inc, n_a_php>>] \in archive
    /\ [kind |-> "dir", path |-> <<slug_part, n_logs>>] \in archive

\* C16: every file of the tree whose relative path passes every exclusion
\* rule is a file entry of the zip under the slug, wherever the plugin
\* directory is.
C16_EveryIncludedFile ==
    pc = "zip_written" =>
       \A f \in treeFiles :
          PassesRules(f) =>
             [kind |-> "file", path |-> <<slug_part>> \o f] \in archive

\* ------------------------------------------------- claims on a whole run
\* The version a run that found the plugin file as srcAtStart is to publish.
TargetVersion == NextVersion(ParseVer(srcAtStart.header), increment)

\* The entries update.json held when the run started.
PriorEntries ==
    IF manifestAtStart.kind = "ok" THEN Range(manifestAtStart.versions) ELSE {}

\* The zip of a successful run is in the plugin directory and in the bucket
\* under {slug}-{N}.zip, and a run marked stable leaves stable_version = N.
ZipAndStableOf(N) ==
    /\ zip_name = <<plugin_slug, "-">> \o VerStr(N) \o <<".zip">>
    /\ zip_name \in localZips
    /\ zip_name \in remoteZips
    /\ is_stable => manifestFile.stable_version = VerStr(N)

\* C14 as stated: after a successful run the zip is named {slug}-{N}.zip
\* with N the next version of the version found, the first entry of
\* update.json has version N, and a run marked stable leaves
\* stable_version = N.
C14_FirstEntryIsNew ==
    pc = "done" =>
       /\ ZipAndStableOf(TargetVersion)
       /\ manifestFile.kind = "ok"
       /\ Len(manifestFile.versions) >= 1
       /\ manifestFile.versions[1].version = VerStr(TargetVersion)

\* C14: after a successful run the zip is named {slug}-{N}.zip with N the
\* next version of the version found, update.json has the entry of N at
\* its place in descending order (first exactly when no entry found at the
\* start has a greater version), and a run marked stable leaves
\* stable_version = N.
C14_EndToEnd ==
    pc = "done" =>
       /\ ZipAndStableOf(TargetVersion)
       /\ manifestFile.kind = "ok"
       /\ \E i \in 1..Len(manifestFile.versions) :
             /\ manifestFile.versions[i].version = VerStr(TargetVersion)
             /\ manifestFile.versions[i].download_url = zip_name
             /\ \A j \in 1..(i - 1) :
                   VerLess(TargetVersion, ParseVer(manifestFile.versions[j].version))
             /\ \A j \in (i + 1)..Len(manifestFile.versions) :
                   VerLess(ParseVer(manifestFile.versions[j].version), TargetVersion)
             /\ (i = 1) <=> (\A e \in PriorEntries :
                                ~VerLess(TargetVersion, ParseVer(e.version)))

\* A stable publish of a version below one already in update.json.
C14_Witness ==
    /\ pc = "done"
    /\ is_stable
    /\ Len(manifestFile.versions) = 2
    /\ manifestFile.versions[2].version = VerStr(new_version)
    /\ manifestFile.stable_version = VerStr(new_version)

\* update.json has been written in full by this run.
ManifestWritten == pc \in {"upload_json", "upload_zip", "done"}

\* The entries of a version sequence other than the one of version s.
OtherEntries(versions, s) == SelectSeq(versions, LAMBDA e : e.version # s)

\* C17: when update.json was parseable at the load, the entries of every
\* version other than the one published are, after the save, the entries
\* found at the start, unchanged and in the same order; none is added and
\* none is lost.
C17_OnlyNewVersionChanges ==
    (ManifestWritten /\ loadedFrom = "ok") =>
       /\ manifestFile.kind = "ok"
       /\ OtherEntries(manifestFile.versions, VerStr(new_version))
             = OtherEntries(manifestAtStart.versions, VerStr(new_version))
       /\ Len(manifestFile.versions)
             = Len(OtherEntries(manifestAtStart.versions, VerStr(new_version))) + 1

\* A publish onto a manifest that holds another version.
C17_Witness ==
    /\ pc = "done"
    /\ loadedFrom = "ok"
    /\ Len(manifestAtStart.versions) = 1
    /\ manifestAtStart.versions[1].version # VerStr(new_version)
    /\ Len(manifestFile.versions) = 2

ValidationFailures == {"get_current_version", "increment", "changelog"}

\* C18: a run that ends in the validation of the version marker, the
\* increment kind or the changelog has entered no stage and leaves the
\* plugin file and update.json as it found them; no step of a run up to
\* the end of the validation changes the plugin directory or the bucket.
C18_ValidationBeforeEffects ==
    /\ []((pc = "aborted" /\ failedAt \in ValidationFailures) =>
             /\ stages = <<>>
             /\ srcFile = srcAtStart
             /\ manifestFile = manifestAtStart
             /\ zip_name = <<>>)
    /\ [][(\/ pc' = "inputs"
           \/ pc = "inputs"
           \/ (pc # "aborted" /\ pc' = "aborted" /\ failedAt' \in ValidationFailures))
             => (UNCHANGED <<disk, remote>> /\ stages' = <<>>)]_vars

\* An empty changelog given to a run that follows a complete publish.
C18_Witness ==
    /\ pc = "aborted"
    /\ failedAt = "changelog"
    /\ manifestFile.kind = "ok"
    /\ remoteManifest = manifestFile
    /\ remoteZips # {}

\* C19: a publish not marked stable onto a parseable update.json leaves
\* stable_version as it found it, present with the same value or absent.
C19_StablePointerKept ==
    (ManifestWritten /\ ~is_stable /\ loadedFrom = "ok") =>
       manifestFile.stable_version = manifestAtStart.stable_version

\* A publish not marked stable after a stable publish of another version.
C19_Witness ==
    /\ pc = "done"
    /\ ~is_stable
    /\ loadedFrom = "ok"
    /\ manifestAtStart.stable_version # <<>>
    /\ manifestAtStart.stable_version # VerStr(new_version)
    /\ manifestFile.stable_version = manifestAtStart.stable_version

\* update.json as one uninterrupted run for version N leaves it.
SingleRunManifest(N) ==
    LET merged == Upsert(LoadMetadata(manifestAtStart),
                         NewVersionData(N, ZipName(N), changelog))
    IN  IF is_stable THEN MarkStable(merged, VerStr(N)) ELSE merged

\* C15: a re-run of a run that aborted after the rewrite, given the same
\* increment, changelog and stable flag, publishes the version the aborted
\* run was to publish and ends with the plugin file, the zip and
\* update.json that one uninterrupted run would have left.
C15_RerunSameResult ==
    (pc = "done" /\ runs > 1) =>
       /\ new_version = TargetVersion
       /\ srcFile = RewriteMarkers(srcAtStart, TargetVersion)
       /\ localZips = {ZipName(TargetVersion)}
       /\ manifestFile = SingleRunManifest(TargetVersion)

\* ------------------------------------------------ claims on overlapping runs
\* The first process has loaded update.json and has not yet saved it in full.
Proc1Saving == pc \in {"meta_open1", "meta_dump1", "meta_open2", "meta_dump2"}

\* The second process likewise.
Proc2Saving ==
    run2.pc \in {"meta_open1", "meta_dump1", "meta_open2", "meta_dump2"}

\* C20: nothing makes a process wait for the other: while one process is
\* between its load and the end of its save of update.json, the load of
\* the other is enabled; and when both processes have completed,
\* update.json is the document one of them held in memory (the last one
\* saved), not a merge of the two.
C20_NoMutualExclusion ==
    /\ (P2At("meta_load") /\ Proc1Saving) => ENABLED P2LoadAndMerge
    /\ (pc = "meta_load" /\ Proc2Saving) => ENABLED LoadAndMerge
    /\ (pc = "done" /\ P2At("done")) =>
          manifestFile \in {metadata, run2.metadata}

\* Both processes completed, both zips are in the bucket, the versions
\* differ, the first process loaded update.json before the second saved it
\* and saved after it: the entry of the second process is in neither
\* update.json nor the bucket's copy.
C20_Witness ==
    /\ pc = "done"
    /\ P2At("done")
    /\ new_version # run2.new_version
    /\ {zip_name, run2.zip_name} \subseteq remoteZips
    /\ manifestFile.kind = "ok"
    /\ HasVersion(manifestFile, VerStr(new_version))
    /\ ~HasVersion(manifestFile, VerStr(run2.new_version))
    /\ remoteManifest = manifestFile

====
